---- MODULE Spec2Model ----
(***************************************************************************)
(* Model of the block-synchronization core of rust-randchain-prototype:    *)
(*   - the peer request server (ServerImpl / ServerQueue / server_worker   *)
(*     / ServerTaskExecutor) of sync/src/synchronization_server.rs;        *)
(*   - the synchronous block importer (BlocksWriter::append_block) of      *)
(*     sync/src/blocks_writer.rs.                                          *)
(* Spec     : the request server (producers, disconnects, worker, drop).   *)
(* SpecDrop : the shutdown of the server, with fair worker and drop steps. *)
(* SpecQueue: the queue and the worker under three peers.                  *)
(* SpecEx   : one request served by the executor over a populated storage. *)
(* SpecBW   : the blocks writer (append_block over a small block           *)
(*            universe).                                                   *)
(***************************************************************************)
EXTENDS Integers, Sequences, FiniteSets, TLC

(***************************************************************************)
(* Bounds of the model.                                                    *)
(***************************************************************************)
\* number of peer indices that producers use
NumPeers == 2
\* total number of Server::execute calls
MaxTasks == 3
\* total number of Server::on_disconnect calls
MaxDisconnects == 1
\* longest inventory of a submitted getdata request
MaxInv == 1

Peers == 0 .. (NumPeers - 1)

(***************************************************************************)
(* Hashes and the block universe.  A hash is a number; ZeroHash is         *)
(* H256::default(), which no block has.  Block 1 is the genesis block.     *)
(***************************************************************************)
ZeroHash == 0
Genesis == 1

VARIABLES
    \* ---- ServerQueue (synchronization_server.rs:43-48)
    is_stopping,      \* AtomicBool
    peers_queue,      \* VecDeque<usize>
    tasks_queue,      \* HashMap<usize, VecDeque<ServerTask>>: a function on the keys present
    \* ---- the worker thread and the condvar
    worker,           \* [pc, task]: position of server_worker and the task it holds
    notified,         \* queue_ready has a pending wake-up for the waiting worker
    drop_pc,          \* position of Drop for ServerImpl: "alive", "notify", "join", "done"
    \* ---- collaborators of the executor
    executor_tasks,   \* outbound tasks given to TaskExecutor::execute, in order
    misbehaving,      \* peers reported through Peers::misbehaving, in order
    \* ---- storage (BlockProvider view) and the blocks writer
    stored,           \* hashes of the blocks the database holds
    canon,            \* main chain: canon[n + 1] is the hash at height n
    orphaned_blocks_pool, \* OrphanBlocksPool: set of block hashes
    sink_err,         \* BlocksWriterSinkData::err
    accepts,          \* the blocks the verifier accepts
    \* ---- history
    submitted,        \* number of execute calls so far (ids of the tasks)
    disconnects,      \* number of on_disconnect calls so far
    dispatched,       \* log of the tasks the worker took from the queue
    last,             \* the last queue operation / the last append_block call
    appended          \* per block: how many append_block calls it had (0, 1, 2 = more)

server_vars == <<is_stopping, peers_queue, tasks_queue, worker, notified, drop_pc,
                 executor_tasks, misbehaving, submitted, disconnects, dispatched>>
storage_vars == <<stored, canon>>
writer_vars == <<orphaned_blocks_pool, sink_err, accepts, appended>>
vars == <<server_vars, storage_vars, writer_vars, last>>

(***************************************************************************)
(* Helpers on sequences.                                                   *)
(***************************************************************************)
Range(s) == {s[i] : i \in 1 .. Len(s)}

RECURSIVE Reverse(_)
Reverse(s) == IF s = <<>> THEN <<>> ELSE Append(Reverse(Tail(s)), Head(s))

\* VecDeque::push_front
PushFront(s, x) == <<x>> \o s

\* Vec::pop / all but the last element
Front(s) == SubSeq(s, 1, Len(s) - 1)

\* VecDeque::remove(position)
RemoveAt(s, i) == SubSeq(s, 1, i - 1) \o SubSeq(s, i + 1, Len(s))

\* Iterator::position: the first index holding x (0 when absent)
Position(s, x) ==
    IF x \in Range(s) THEN CHOOSE i \in 1 .. Len(s) : s[i] = x /\ \A j \in 1 .. (i - 1) : s[j] # x
    ELSE 0

(***************************************************************************)
(* Option<T> is a set with at most one element.                            *)
(***************************************************************************)
NoneOpt == {}
Some(x) == {x}
IsSome(o) == o # {}
Unwrap(o) == CHOOSE x \in o : TRUE

(***************************************************************************)
(* The block universe: six blocks on top of the genesis block.             *)
(*     1 <- 2 <- 3 <- 4        (a linear chain)                            *)
(*     1 <- 5 <- 6             (a fork; block 5 carries more work)         *)
(*          5 <- 7             (a sibling of block 6)                      *)
(* A block is identified by its hash.                                      *)
(***************************************************************************)
Blocks == {2, 3, 4, 5, 6, 7}
AllBlocks == {Genesis} \cup Blocks

\* block.header.raw.previous_header_hash
previous_header_hash(h) ==
    CASE h = 2 -> 1
      [] h = 3 -> 2
      [] h = 4 -> 3
      [] h = 5 -> 1
      [] h = 6 -> 5
      [] h = 7 -> 5
      [] OTHER -> ZeroHash

\* the work a block adds to its branch
block_work(h) == IF h = 5 THEN 2 ELSE 1

(***************************************************************************)
(* BlockProvider: the read side of the storage.                            *)
(***************************************************************************)
\* block_number(hash): height on the main chain
block_number(hash) ==
    IF hash \in Range(canon) THEN Some(Position(canon, hash) - 1) ELSE NoneOpt

\* block_hash(number): canonical hash at a height
block_hash(number) ==
    IF number + 1 \in 1 .. Len(canon) THEN Some(canon[number + 1]) ELSE NoneOpt

\* block_header(BlockRef::Hash)
block_header(hash) ==
    IF hash \in stored
    THEN Some([hash |-> hash, previous_header_hash |-> previous_header_hash(hash)])
    ELSE NoneOpt

\* block_header_bytes(BlockRef::Hash) of a database holding the blocks db
block_header_bytes(db, hash) == IF hash \in db THEN Some(hash) ELSE NoneOpt

\* block(BlockRef::Hash)
block(hash) == IF hash \in stored THEN Some(hash) ELSE NoneOpt

\* contains_block: the trait's default method
contains_block(db, hash) == IsSome(block_header_bytes(db, hash))

\* best_block()
best_block == [number |-> Len(canon) - 1, hash |-> canon[Len(canon)]]

(***************************************************************************)
(* ServerTask and the outbound Task.  `id` is a ghost tag: the number of   *)
(* the execute call that submitted the task; a continuation keeps the id   *)
(* of the request it continues.                                            *)
(***************************************************************************)
GetData(peer, inv, id) ==
    [kind |-> "GetData", peer_index |-> peer, inventory |-> inv, id |-> id]
ReversedGetData(peer, inv, notfound, id) ==
    [kind |-> "ReversedGetData", peer_index |-> peer, inventory |-> inv,
     notfound |-> notfound, id |-> id]
GetBlocks(peer, locator, stop, id) ==
    [kind |-> "GetBlocks", peer_index |-> peer, block_locator_hashes |-> locator,
     hash_stop |-> stop, id |-> id]
GetHeaders(peer, locator, stop, request_id, id) ==
    [kind |-> "GetHeaders", peer_index |-> peer, block_locator_hashes |-> locator,
     hash_stop |-> stop, request_id |-> request_id, id |-> id]
Mempool(peer, id) == [kind |-> "Mempool", peer_index |-> peer, id |-> id]

\* ServerTask::peer_index
peer_index(task) == task.peer_index

\* InventoryVector
InvBlock(hash) == [inv_type |-> "MessageBlock", hash |-> hash]
InvError(hash) == [inv_type |-> "Error", hash |-> hash]

\* what one dispatch hands back: the continuation, the outbound tasks emitted
\* and the peers reported as misbehaving
Served(cont, out, bad) == [cont |-> cont, out |-> out, misbehaving |-> bad]

(***************************************************************************)
(* ServerTaskExecutor.                                                     *)
(***************************************************************************)
\* scaled from 500 and 2000 so that both cut a main chain of four blocks
GETBLOCKS_MAX_RESPONSE_HASHES == 2
GETHEADERS_MAX_RESPONSE_HEADERS == 2

\* mutants of serve_get_data: an empty request ends at once / the inventory
\* is not reversed
serve_get_data_ends_empty(peer, inventory, id) ==
    IF inventory = <<>> THEN Served(NoneOpt, <<>>, <<>>)
    ELSE Served(Some(ReversedGetData(peer, Reverse(inventory), <<>>, id)), <<>>, <<>>)

serve_get_data_unreversed(peer, inventory, id) ==
    Served(Some(ReversedGetData(peer, inventory, <<>>, id)), <<>>, <<>>)

serve_get_data(peer, inventory, id) ==
    Served(Some(ReversedGetData(peer, Reverse(inventory), <<>>, id)), <<>>, <<>>)

serve_reversed_get_data(peer, inventory, notfound, id) ==
    IF inventory = <<>>
    THEN Served(NoneOpt,
                IF notfound # <<>>
                THEN <<[kind |-> "NotFound", peer_index |-> peer, inventory |-> notfound]>>
                ELSE <<>>,
                <<>>)
    ELSE LET next_item == inventory[Len(inventory)]
             rest == Front(inventory)
         IN  IF next_item.inv_type = "MessageBlock"
             THEN IF IsSome(block(next_item.hash))
                  THEN Served(Some(ReversedGetData(peer, rest, notfound, id)),
                              <<[kind |-> "Block", peer_index |-> peer,
                                 block |-> Unwrap(block(next_item.hash))]>>,
                              <<>>)
                  ELSE Served(Some(ReversedGetData(peer, rest, Append(notfound, next_item), id)),
                              <<>>, <<>>)
             ELSE Served(Some(ReversedGetData(peer, rest, notfound, id)), <<>>, <<>>)

\* the walk back along previous_header_hash of one locator entry that is not
\* on the main chain
RECURSIVE walk_to_main_chain(_)
walk_to_main_chain(hash) ==
    IF ~IsSome(block_header(hash)) THEN NoneOpt
    ELSE LET prev == Unwrap(block_header(hash)).previous_header_hash
         IN  IF IsSome(block_number(prev)) THEN block_number(prev)
             ELSE walk_to_main_chain(prev)

\* mutant of locate_in: an entry off the main chain is not walked back
RECURSIVE locate_in_canonical_only(_)
locate_in_canonical_only(hashes) ==
    IF hashes = <<>> THEN NoneOpt
    ELSE IF IsSome(block_number(Head(hashes))) THEN block_number(Head(hashes))
    ELSE locate_in_canonical_only(Tail(hashes))

RECURSIVE locate_in(_)
locate_in(hashes) ==
    IF hashes = <<>> THEN NoneOpt
    ELSE IF IsSome(block_number(Head(hashes))) THEN block_number(Head(hashes))
    ELSE IF IsSome(walk_to_main_chain(Head(hashes))) THEN walk_to_main_chain(Head(hashes))
    ELSE locate_in(Tail(hashes))

locate_best_common_block(hash_stop, locator) == locate_in(Append(locator, hash_stop))

\* mutant of successor_hashes: the stop hash is part of the response
RECURSIVE successor_hashes_through_stop(_, _, _)
successor_hashes_through_stop(height, left, hash_stop) ==
    IF left = 0 \/ ~IsSome(block_hash(height)) THEN <<>>
    ELSE IF Unwrap(block_hash(height)) = hash_stop THEN <<hash_stop>>
    ELSE <<Unwrap(block_hash(height))>>
             \o successor_hashes_through_stop(height + 1, left - 1, hash_stop)

\* (from .. from + max).map(block_hash).take_while(is_some).take_while(!= hash_stop)
RECURSIVE successor_hashes(_, _, _)
successor_hashes(height, left, hash_stop) ==
    IF left = 0 \/ ~IsSome(block_hash(height)) THEN <<>>
    ELSE IF Unwrap(block_hash(height)) = hash_stop THEN <<>>
    ELSE <<Unwrap(block_hash(height))>> \o successor_hashes(height + 1, left - 1, hash_stop)

\* mutant of serve_get_blocks: an unknown locator is ignored silently
serve_get_blocks_silent(peer, locator, hash_stop) ==
    LET common == locate_best_common_block(hash_stop, locator)
    IN  IF IsSome(common)
        THEN LET hashes == successor_hashes(Unwrap(common) + 1,
                                            GETBLOCKS_MAX_RESPONSE_HASHES, hash_stop)
                 inventory == [i \in 1 .. Len(hashes) |-> InvBlock(hashes[i])]
             IN  IF inventory # <<>>
                 THEN Served(NoneOpt,
                             <<[kind |-> "Inventory", peer_index |-> peer,
                                inventory |-> inventory]>>, <<>>)
                 ELSE Served(NoneOpt, <<>>, <<>>)
        ELSE Served(NoneOpt, <<>>, <<>>)

serve_get_blocks(peer, locator, hash_stop) ==
    LET common == locate_best_common_block(hash_stop, locator)
    IN  IF IsSome(common)
        THEN LET hashes == successor_hashes(Unwrap(common) + 1,
                                            GETBLOCKS_MAX_RESPONSE_HASHES, hash_stop)
                 inventory == [i \in 1 .. Len(hashes) |-> InvBlock(hashes[i])]
             IN  IF inventory # <<>>
                 THEN Served(NoneOpt,
                             <<[kind |-> "Inventory", peer_index |-> peer,
                                inventory |-> inventory]>>, <<>>)
                 ELSE Served(NoneOpt, <<>>, <<>>)
        ELSE Served(NoneOpt, <<>>, <<peer>>)

\* .map(block_header).take_while(is_some).map(|h| h.raw)
RECURSIVE headers_of(_)
headers_of(hashes) ==
    IF hashes = <<>> \/ ~IsSome(block_header(Head(hashes))) THEN <<>>
    ELSE <<Unwrap(block_header(Head(hashes)))>> \o headers_of(Tail(hashes))

\* mutant of serve_get_headers: an empty list of headers is not sent
serve_get_headers_skips_empty(peer, locator, hash_stop, request_id) ==
    LET common == locate_best_common_block(hash_stop, locator)
    IN  IF IsSome(common)
        THEN LET hashes == successor_hashes(Unwrap(common) + 1,
                                            GETHEADERS_MAX_RESPONSE_HEADERS, hash_stop)
             IN  IF hashes # <<>>
                 THEN Served(NoneOpt,
                             <<[kind |-> "Headers", peer_index |-> peer,
                                headers |-> headers_of(hashes),
                                request_id |-> Some(request_id)]>>, <<>>)
                 ELSE Served(NoneOpt, <<>>, <<>>)
        ELSE Served(NoneOpt, <<>>, <<peer>>)

serve_get_headers(peer, locator, hash_stop, request_id) ==
    LET common == locate_best_common_block(hash_stop, locator)
    IN  IF IsSome(common)
        THEN LET hashes == successor_hashes(Unwrap(common) + 1,
                                            GETHEADERS_MAX_RESPONSE_HEADERS, hash_stop)
             IN  Served(NoneOpt,
                        <<[kind |-> "Headers", peer_index |-> peer,
                           headers |-> headers_of(hashes),
                           request_id |-> Some(request_id)]>>, <<>>)
        ELSE Served(NoneOpt, <<>>, <<peer>>)

serve_mempool(peer) == Served(NoneOpt, <<>>, <<>>)

\* ServerTaskExecutor::execute
execute(task) ==
    CASE task.kind = "GetData" ->
            serve_get_data(task.peer_index, task.inventory, task.id)
      [] task.kind = "ReversedGetData" ->
            serve_reversed_get_data(task.peer_index, task.inventory, task.notfound, task.id)
      [] task.kind = "GetBlocks" ->
            serve_get_blocks(task.peer_index, task.block_locator_hashes, task.hash_stop)
      [] task.kind = "GetHeaders" ->
            serve_get_headers(task.peer_index, task.block_locator_hashes, task.hash_stop,
                              task.request_id)
      [] task.kind = "Mempool" -> serve_mempool(task.peer_index)


(***************************************************************************)
(* ServerQueue.  The operations are functions of the two collections       *)
(* (pq = peers_queue, tq = tasks_queue); each runs under the queue mutex,  *)
(* so an action applies one of them in a single step.                      *)
(***************************************************************************)
\* HashMap::remove / HashMap::insert
MapRemove(tq, peer) == [k \in (DOMAIN tq) \ {peer} |-> tq[k]]
MapInsert(tq, peer, tasks) == [k \in (DOMAIN tq) \cup {peer} |-> IF k = peer THEN tasks ELSE tq[k]]

Queue(pq, tq) == [peers_queue |-> pq, tasks_queue |-> tq]

\* mutants of reschedule_peer: the peer is queued again although its deque is
\* empty / the peer is queued again at the front
reschedule_peer_always(popped, tq, peer, peer_tasks) ==
    IF peer_tasks # <<>>
    THEN Queue(Append(popped, peer), [tq EXCEPT ![peer] = peer_tasks])
    ELSE Queue(Append(popped, peer), MapRemove(tq, peer))

reschedule_peer_at_front(popped, tq, peer, peer_tasks) ==
    IF peer_tasks # <<>>
    THEN Queue(PushFront(popped, peer), [tq EXCEPT ![peer] = peer_tasks])
    ELSE Queue(popped, MapRemove(tq, peer))

\* "remove if no tasks left || schedule otherwise" of next_task
reschedule_peer(popped, tq, peer, peer_tasks) ==
    IF peer_tasks # <<>>
    THEN Queue(Append(popped, peer), [tq EXCEPT ![peer] = peer_tasks])
    ELSE Queue(popped, MapRemove(tq, peer))

\* ServerQueue::next_task; panicked: one of its two expect() calls failed
next_task(pq, tq) ==
    IF pq = <<>>
    THEN [task |-> NoneOpt, queue |-> Queue(pq, tq), panicked |-> FALSE]
    ELSE LET peer == Head(pq)
             popped == Tail(pq)
         IN  IF peer \notin DOMAIN tq \/ tq[peer] = <<>>
             THEN [task |-> NoneOpt, queue |-> Queue(popped, tq), panicked |-> TRUE]
             ELSE [task |-> Some(Head(tq[peer])),
                   queue |-> reschedule_peer(popped, tq, peer, Tail(tq[peer])),
                   panicked |-> FALSE]

\* mutant of add_task: a peer's first task does not queue the peer
add_task_unqueued(pq, tq, task) ==
    LET peer == peer_index(task)
    IN  IF peer \in DOMAIN tq
        THEN Queue(IF tq[peer] = <<>> THEN Append(pq, peer) ELSE pq,
                   [tq EXCEPT ![peer] = Append(@, task)])
        ELSE Queue(pq, MapInsert(tq, peer, <<task>>))

\* ServerQueue::add_task (without the notify_one, which the action does)
add_task(pq, tq, task) ==
    LET peer == peer_index(task)
    IN  IF peer \in DOMAIN tq
        THEN Queue(IF tq[peer] = <<>> THEN Append(pq, peer) ELSE pq,
                   [tq EXCEPT ![peer] = Append(@, task)])
        ELSE Queue(Append(pq, peer), MapInsert(tq, peer, <<task>>))

\* mutants of add_task_front: the peer is queued without looking at its deque /
\* the continuation goes to the back of the deque
add_task_front_requeues(pq, tq, task) ==
    LET peer == peer_index(task)
    IN  IF peer \in DOMAIN tq
        THEN Queue(Append(pq, peer), [tq EXCEPT ![peer] = PushFront(@, task)])
        ELSE Queue(Append(pq, peer), MapInsert(tq, peer, <<task>>))

add_task_front_at_back(pq, tq, task) ==
    LET peer == peer_index(task)
    IN  IF peer \in DOMAIN tq
        THEN Queue(IF tq[peer] = <<>> THEN Append(pq, peer) ELSE pq,
                   [tq EXCEPT ![peer] = Append(@, task)])
        ELSE Queue(Append(pq, peer), MapInsert(tq, peer, <<task>>))

\* ServerQueue::add_task_front (without the notify_one)
add_task_front(pq, tq, task) ==
    LET peer == peer_index(task)
    IN  IF peer \in DOMAIN tq
        THEN Queue(IF tq[peer] = <<>> THEN Append(pq, peer) ELSE pq,
                   [tq EXCEPT ![peer] = PushFront(@, task)])
        ELSE Queue(Append(pq, peer), MapInsert(tq, peer, <<task>>))

\* mutant of remove_peer_tasks: the entry of peers_queue is left behind
remove_peer_tasks_keeps_peer(pq, tq, peer) ==
    [queue |-> Queue(pq, MapRemove(tq, peer)), panicked |-> FALSE]

\* mutant of remove_peer_tasks: the peer's entry is removed as Vec::swap_remove
\* does it, the last peer of the queue taking its place
remove_peer_tasks_swap_remove(pq, tq, peer) ==
    IF peer \in DOMAIN tq /\ Position(pq, peer) # 0
    THEN [queue |-> Queue([k \in 1 .. (Len(pq) - 1) |->
                              IF k = Position(pq, peer) THEN pq[Len(pq)] ELSE pq[k]],
                          MapRemove(tq, peer)),
          panicked |-> FALSE]
    ELSE [queue |-> Queue(pq, MapRemove(tq, peer)), panicked |-> peer \in DOMAIN tq]

\* ServerQueue::remove_peer_tasks; panicked: its expect() failed
remove_peer_tasks(pq, tq, peer) ==
    IF peer \in DOMAIN tq
    THEN IF Position(pq, peer) = 0
         THEN [queue |-> Queue(pq, MapRemove(tq, peer)), panicked |-> TRUE]
         ELSE [queue |-> Queue(RemoveAt(pq, Position(pq, peer)), MapRemove(tq, peer)),
               panicked |-> FALSE]
    ELSE [queue |-> Queue(pq, tq), panicked |-> FALSE]

\* mutants of notify_one: a notification does not reach the waiting worker /
\* nothing is notified at all
notify_one_lost == notified

notify_one_never == FALSE

\* Condvar::notify_one: wakes the worker when it waits, and is lost otherwise
notify_one == (worker.pc = "waiting") \/ notified

(***************************************************************************)
(* Inputs of the producers.                                                *)
(***************************************************************************)
\* the unknown block of server_getdata_responds_notfound_when_block_not_found
InvItems == {InvBlock(ZeroHash)}

RECURSIVE SeqsUpTo(_, _)
SeqsUpTo(S, n) ==
    IF n = 0 THEN {<<>>}
    ELSE SeqsUpTo(S, n - 1) \cup {Append(s, x) : s \in {t \in SeqsUpTo(S, n - 1) : Len(t) = n - 1}, x \in S}

Inventories == SeqsUpTo(InvItems, MaxInv)

\* the requests a producer submits for a peer
ProducerTasks(peer, id) ==
    {Mempool(peer, id)}
        \cup {GetData(peer, inv, id) : inv \in Inventories}
        \cup {GetHeaders(peer, <<Genesis>>, ZeroHash, 6, id)}

(***************************************************************************)
(* The state after ServerImpl::new (storage seeded with the genesis block, *)
(* as in create_synchronization_server) and BlocksWriter::new.             *)
(***************************************************************************)
NoOp == [op |-> "none"]

InitServer ==
    /\ is_stopping = FALSE
    /\ peers_queue = <<>>
    /\ tasks_queue = <<>>
    /\ worker = [pc |-> "lock", task |-> NoneOpt]
    /\ notified = FALSE
    /\ drop_pc = "alive"
    /\ executor_tasks = <<>>
    /\ misbehaving = <<>>
    /\ submitted = 0
    /\ disconnects = 0
    /\ dispatched = <<>>

InitStorage ==
    /\ stored = {Genesis}
    /\ canon = <<Genesis>>

InitWriter ==
    /\ orphaned_blocks_pool = {}
    /\ sink_err = NoneOpt
    /\ appended = [b \in Blocks |-> 0]

Init ==
    /\ InitServer
    /\ InitStorage
    /\ InitWriter
    /\ accepts = Blocks
    /\ last = NoOp

(***************************************************************************)
(* Server::execute and Server::on_disconnect, called from any thread while *)
(* the server is alive.                                                    *)
(***************************************************************************)
\* Server::execute(task): queue.lock().add_task(task), which notifies
ExecuteTask(task) ==
    /\ drop_pc = "alive"
    /\ LET q == add_task(peers_queue, tasks_queue, task)
       IN  /\ peers_queue' = q.peers_queue
           /\ tasks_queue' = q.tasks_queue
           /\ last' = [op |-> "execute", peer |-> peer_index(task), task |-> task]
    /\ notified' = notify_one
    /\ submitted' = submitted + 1
    /\ UNCHANGED <<is_stopping, worker, drop_pc, executor_tasks, misbehaving,
                   disconnects, dispatched, storage_vars, writer_vars>>

Execute(peer) ==
    /\ submitted < MaxTasks
    /\ \E task \in ProducerTasks(peer, submitted + 1) : ExecuteTask(task)

OnDisconnect(peer) ==
    /\ drop_pc = "alive"
    /\ disconnects < MaxDisconnects
    /\ LET r == remove_peer_tasks(peers_queue, tasks_queue, peer)
       IN  /\ peers_queue' = r.queue.peers_queue
           /\ tasks_queue' = r.queue.tasks_queue
           /\ last' = IF r.panicked
                      THEN [op |-> "panic", in |-> "remove_peer_tasks", peer |-> peer]
                      ELSE [op |-> "on_disconnect", peer |-> peer,
                            had_tasks |-> peer \in DOMAIN tasks_queue]
    /\ disconnects' = disconnects + 1
    /\ UNCHANGED <<is_stopping, worker, notified, drop_pc, executor_tasks, misbehaving,
                   submitted, dispatched, storage_vars, writer_vars>>

(***************************************************************************)
(* server_worker.  pc: "lock" (top of the loop), "waiting" (in             *)
(* queue_ready.wait, the mutex released), "execute" (holds a task, outside *)
(* the mutex), "reinject" (holds a continuation), "stopped" (left the      *)
(* loop), "panicked".                                                      *)
(***************************************************************************)
\* the log entry of a dispatch: the task, the other peers queued at the pop,
\* whether the peer stayed queued, the counts of calls so far, and whether
\* is_stopping was set at the pop
Dispatch(task, r) ==
    [task |-> task,
     pending |-> Range(peers_queue) \ {peer_index(task)},
     requeued |-> peer_index(task) \in Range(r.queue.peers_queue),
     submitted |-> submitted,
     disconnects |-> disconnects,
     stopping |-> is_stopping]

\* the worker took the result r of next_task
WorkerTook(r, empty_pc) ==
    /\ peers_queue' = r.queue.peers_queue
    /\ tasks_queue' = r.queue.tasks_queue
    /\ IF r.panicked
       THEN /\ worker' = [pc |-> "panicked", task |-> NoneOpt]
            /\ last' = [op |-> "panic", in |-> "next_task"]
            /\ UNCHANGED dispatched
       ELSE IF IsSome(r.task)
       THEN /\ worker' = [pc |-> "execute", task |-> r.task]
            /\ dispatched' = Append(dispatched, Dispatch(Unwrap(r.task), r))
            /\ last' = [op |-> "next_task", peer |-> peer_index(Unwrap(r.task)),
                        woken |-> (empty_pc = "lock")]
       ELSE /\ worker' = [pc |-> empty_pc, task |-> NoneOpt]
            /\ last' = [op |-> "next_task_none"]
            /\ UNCHANGED dispatched

\* mutant of WorkerLock: is_stopping is not looked at
WorkerLockIgnoresStop ==
    /\ worker.pc = "lock"
    /\ WorkerTook(next_task(peers_queue, tasks_queue), "waiting")
    /\ notified' = FALSE
    /\ UNCHANGED <<is_stopping, drop_pc, executor_tasks, misbehaving, submitted,
                   disconnects, storage_vars, writer_vars>>

\* lock; break when stopping; next_task; wait when the queue is empty
WorkerLock ==
    /\ worker.pc = "lock"
    /\ IF is_stopping
       THEN /\ worker' = [pc |-> "stopped", task |-> NoneOpt]
            /\ UNCHANGED <<peers_queue, tasks_queue, dispatched, last>>
       ELSE WorkerTook(next_task(peers_queue, tasks_queue), "waiting")
    /\ notified' = FALSE
    /\ UNCHANGED <<is_stopping, drop_pc, executor_tasks, misbehaving, submitted,
                   disconnects, storage_vars, writer_vars>>

\* the wait returns (the mutex is held again); next_task once more
WorkerWake ==
    /\ worker.pc = "waiting"
    /\ notified
    /\ WorkerTook(next_task(peers_queue, tasks_queue), "lock")
    /\ notified' = FALSE
    /\ UNCHANGED <<is_stopping, drop_pc, executor_tasks, misbehaving, submitted,
                   disconnects, storage_vars, writer_vars>>

\* executor.execute(task), outside the mutex
WorkerExecute ==
    /\ worker.pc = "execute"
    /\ LET r == execute(Unwrap(worker.task))
       IN  /\ executor_tasks' = executor_tasks \o r.out
           /\ misbehaving' = misbehaving \o r.misbehaving
           /\ worker' = IF IsSome(r.cont) THEN [pc |-> "reinject", task |-> r.cont]
                        ELSE [pc |-> "lock", task |-> NoneOpt]
    /\ UNCHANGED <<is_stopping, peers_queue, tasks_queue, notified, drop_pc, submitted,
                   disconnects, dispatched, last, storage_vars, writer_vars>>

\* queue.lock().add_task_front(continuation)
WorkerReinject ==
    /\ worker.pc = "reinject"
    /\ LET q == add_task_front(peers_queue, tasks_queue, Unwrap(worker.task))
       IN  /\ peers_queue' = q.peers_queue
           /\ tasks_queue' = q.tasks_queue
    /\ last' = [op |-> "add_task_front", peer |-> peer_index(Unwrap(worker.task))]
    /\ worker' = [pc |-> "lock", task |-> NoneOpt]
    /\ notified' = notify_one
    /\ UNCHANGED <<is_stopping, drop_pc, executor_tasks, misbehaving, submitted,
                   disconnects, dispatched, storage_vars, writer_vars>>

(***************************************************************************)
(* Drop for ServerImpl: store is_stopping under the mutex, notify, join.   *)
(***************************************************************************)
DropStore ==
    /\ drop_pc = "alive"
    /\ is_stopping' = TRUE
    /\ drop_pc' = "notify"
    /\ last' = [op |-> "drop"]
    /\ UNCHANGED <<peers_queue, tasks_queue, worker, notified, executor_tasks, misbehaving,
                   submitted, disconnects, dispatched, storage_vars, writer_vars>>

DropNotify ==
    /\ drop_pc = "notify"
    /\ notified' = notify_one
    /\ drop_pc' = "join"
    /\ UNCHANGED <<is_stopping, peers_queue, tasks_queue, worker, executor_tasks,
                   misbehaving, submitted, disconnects, dispatched, last,
                   storage_vars, writer_vars>>

DropJoin ==
    /\ drop_pc = "join"
    /\ worker.pc = "stopped"
    /\ drop_pc' = "done"
    /\ UNCHANGED <<is_stopping, peers_queue, tasks_queue, worker, notified, executor_tasks,
                   misbehaving, submitted, disconnects, dispatched, last,
                   storage_vars, writer_vars>>

Next ==
    \/ \E peer \in Peers : Execute(peer)
    \/ \E peer \in Peers : OnDisconnect(peer)
    \/ WorkerLock
    \/ WorkerWake
    \/ WorkerExecute
    \/ WorkerReinject
    \/ DropStore
    \/ DropNotify
    \/ DropJoin

Spec == Init /\ [][Next]_vars

(***************************************************************************)
(* Scheduling.  The worker is a thread of its own and the dropping thread  *)
(* runs drop to its end, so each of their steps is taken when it stays     *)
(* enabled; WorkerExecute is fair because a task execution terminates.     *)
(* Producers and disconnects are under no obligation.  SpecDrop explores   *)
(* the shutdown with at most MaxDropTasks submitted requests, each a       *)
(* mempool request (no continuation) or an empty getdata request (one      *)
(* continuation) of the first or the last peer.                            *)
(***************************************************************************)
Fairness ==
    /\ WF_vars(WorkerLock)
    /\ WF_vars(WorkerWake)
    /\ WF_vars(WorkerExecute)
    /\ WF_vars(WorkerReinject)
    /\ WF_vars(DropNotify)
    /\ WF_vars(DropJoin)

\* the execute calls of the shutdown specification
MaxDropTasks == 2

DropPeers == {0, NumPeers - 1}
DropTasks(peer, id) == {Mempool(peer, id), GetData(peer, <<>>, id)}

ExecuteBeforeDrop(peer) ==
    /\ submitted < MaxDropTasks
    /\ \E task \in DropTasks(peer, submitted + 1) : ExecuteTask(task)

NextDrop ==
    \/ \E peer \in DropPeers : ExecuteBeforeDrop(peer)
    \/ \E peer \in DropPeers : OnDisconnect(peer)
    \/ WorkerLock
    \/ WorkerWake
    \/ WorkerExecute
    \/ WorkerReinject
    \/ DropStore
    \/ DropNotify
    \/ DropJoin

SpecDrop == Init /\ [][NextDrop]_vars /\ Fairness

\* the queue under one more peer than Spec has: execute and on_disconnect calls
\* of three peers against the worker
MaxQueueTasks == 4

QueuePeers == 0 .. NumPeers

ExecuteQueued(peer) ==
    /\ submitted < MaxQueueTasks
    /\ \E task \in DropTasks(peer, submitted + 1) : ExecuteTask(task)

NextQueue ==
    \/ \E peer \in QueuePeers : ExecuteQueued(peer)
    \/ \E peer \in QueuePeers : OnDisconnect(peer)
    \/ WorkerLock
    \/ WorkerWake
    \/ WorkerExecute
    \/ WorkerReinject

SpecQueue == Init /\ [][NextQueue]_vars


(***************************************************************************)
(* The blocks writer.  Its state is a record                               *)
(*   [stored, canon, pool, err]                                            *)
(* of the database, the main chain, the orphan pool and the sink's error   *)
(* slot; append_block runs on the calling thread with a synchronous        *)
(* verifier, so one call is one step.                                      *)
(***************************************************************************)
\* scaled from 1024 to the size of the block universe (which has four blocks
\* that can be orphans)
MAX_ORPHANED_BLOCKS == 3
\* how many blocks of the universe the verifier may reject
MaxRejected == 1

WriterState(st, ca, pool, err) == [stored |-> st, canon |-> ca, pool |-> pool, err |-> err]

\* ---- Chain / storage write side
RECURSIVE branch_of(_)
\* the hashes from the genesis block to h
branch_of(h) ==
    IF h = Genesis \/ h \notin AllBlocks THEN <<h>>
    ELSE Append(branch_of(previous_header_hash(h)), h)

RECURSIVE branch_work(_)
branch_work(branch) ==
    IF branch = <<>> THEN 0 ELSE block_work(Head(branch)) + branch_work(Tail(branch))

\* Chain::insert_best_block: store the block; extend the main chain, or switch
\* to the block's branch when that branch carries more work
insert_best_block(w, b) ==
    IF previous_header_hash(b) \notin w.stored
    THEN [state |-> w, err |-> Some("UnknownParent")]
    ELSE [state |->
            [w EXCEPT !.stored = @ \cup {b},
                      !.canon = IF previous_header_hash(b) = w.canon[Len(w.canon)]
                                THEN Append(w.canon, b)
                                ELSE IF branch_work(branch_of(b)) > branch_work(w.canon)
                                THEN branch_of(b)
                                ELSE w.canon],
          err |-> NoneOpt]

\* ---- BlocksWriterSink
\* mutant of on_block_verification_success: the block is not handed to the chain
on_block_verification_success_drops(w, b) == w

on_block_verification_success(w, b) ==
    LET r == insert_best_block(w, b)
    IN  IF IsSome(r.err) THEN [r.state EXCEPT !.err = Some("Database")] ELSE r.state

on_block_verification_error(w, b) == [w EXCEPT !.err = Some("Verification")]

\* mutants of sink_error: the recorded error is dropped / is read but left in
\* the slot
sink_error_lost(w) == [taken |-> NoneOpt, state |-> [w EXCEPT !.err = NoneOpt]]

sink_error_peek(w) == [taken |-> w.err, state |-> w]

\* BlocksWriterSinkData::error: Option::take
sink_error(w) == [taken |-> w.err, state |-> [w EXCEPT !.err = NoneOpt]]

\* ---- SyncVerifier::verify_block: calls the sink before it returns
verify_block(w, b) ==
    IF b \in accepts THEN on_block_verification_success(w, b)
    ELSE on_block_verification_error(w, b)

\* ---- OrphanBlocksPool
insert_orphaned_block(pool, b) == pool \cup {b}

\* mutant of orphan_descendants: only the direct children are drained
orphan_children(pool, parents) == {b \in pool : previous_header_hash(b) \in parents}

RECURSIVE orphan_descendants(_, _)
\* the blocks of the pool linked to `parents` through blocks of the pool (the
\* pool knows a block's ancestry only through the blocks it holds)
orphan_descendants(pool, parents) ==
    LET children == {b \in pool : previous_header_hash(b) \in parents}
    IN  IF children = {} THEN {}
        ELSE children \cup orphan_descendants(pool \ children, children)

\* the orders remove_blocks_for_parent may return: every block after its parent
DrainOrders(pool, hash) ==
    LET D == orphan_descendants(pool, {hash})
    IN  {order \in [1 .. Cardinality(D) -> D] :
           /\ \A i, j \in 1 .. Cardinality(D) : i # j => order[i] # order[j]
           /\ \A i \in 1 .. Cardinality(D) :
                 \/ previous_header_hash(order[i]) = hash
                 \/ \E j \in 1 .. (i - 1) : order[j] = previous_header_hash(order[i])}

remove_blocks_for_parent(pool, hash) == pool \ orphan_descendants(pool, {hash})

\* ---- BlocksWriter::append_block
\* mutant of too_many_orphans: the limit itself is refused
too_many_orphans_at_limit(pool) == Cardinality(pool) >= MAX_ORPHANED_BLOCKS

\* "we can't hold many orphaned blocks in memory during import"
too_many_orphans(pool) == Cardinality(pool) > MAX_ORPHANED_BLOCKS

\* mutant of is_known_block: the duplicate check is missing
is_known_block_never(w, b) == FALSE

\* "do not append block if it is already there"
is_known_block(w, b) == contains_block(w.stored, b)

\* "verify && insert only if parent block is already in the storage"
is_orphan_block(w, b) == ~contains_block(w.stored, previous_header_hash(b))

\* mutants of verification_queue_of: the drained orphans are left out / the
\* block goes behind its orphans
verification_queue_block_only(b, order) == <<b>>

verification_queue_reversed(b, order) == Reverse(PushFront(order, b))

verification_queue_block_last(b, order) == Append(order, b)

\* verification_queue = remove_blocks_for_parent(..); push_front(block)
verification_queue_of(b, order) == PushFront(order, b)

Returned(w, result, verified) == [state |-> w, result |-> result, verified |-> verified]

\* mutant of verification_loop: after an error the rest of the queue is still
\* submitted, and the first error is returned at the end
RECURSIVE verification_loop_continues(_, _, _)
verification_loop_continues(w, verification_queue, verified) ==
    IF verification_queue = <<>> THEN Returned(w, "Ok", verified)
    ELSE LET b == Head(verification_queue)
             e == sink_error(verify_block(w, b))
             rest == verification_loop_continues(e.state, Tail(verification_queue),
                                                 Append(verified, b))
         IN  IF IsSome(e.taken)
             THEN Returned(rest.state, Unwrap(e.taken), rest.verified)
             ELSE rest

RECURSIVE verification_loop(_, _, _)
\* while let Some(block) = verification_queue.pop_front() { verify; check the sink }
verification_loop(w, verification_queue, verified) ==
    IF verification_queue = <<>> THEN Returned(w, "Ok", verified)
    ELSE LET b == Head(verification_queue)
             e == sink_error(verify_block(w, b))
         IN  IF IsSome(e.taken)
             THEN Returned(e.state, Unwrap(e.taken), Append(verified, b))
             ELSE verification_loop(e.state, Tail(verification_queue), Append(verified, b))

\* order: the sequence remove_blocks_for_parent returns for this call
append_block(w, b, order) ==
    IF is_known_block(w, b) THEN Returned(w, "Ok", <<>>)
    ELSE IF is_orphan_block(w, b)
    THEN LET inserted == [w EXCEPT !.pool = insert_orphaned_block(w.pool, b)]
         IN  IF too_many_orphans(inserted.pool)
             THEN Returned(inserted, "TooManyOrphanBlocks", <<>>)
             ELSE Returned(inserted, "Ok", <<>>)
    ELSE verification_loop([w EXCEPT !.pool = remove_blocks_for_parent(w.pool, b)],
                           verification_queue_of(b, order), <<>>)

Bump(n) == IF n < 2 THEN n + 1 ELSE 2

AppendBlock(b) ==
    \E order \in DrainOrders(orphaned_blocks_pool, b) :
        LET r == append_block(WriterState(stored, canon, orphaned_blocks_pool, sink_err),
                              b, order)
        IN  /\ stored' = r.state.stored
            /\ canon' = r.state.canon
            /\ orphaned_blocks_pool' = r.state.pool
            /\ sink_err' = r.state.err
            /\ last' = [op |-> "append_block", block |-> b, result |-> r.result,
                        verified |-> r.verified,
                        queue |-> IF is_known_block(WriterState(stored, canon,
                                                                orphaned_blocks_pool, sink_err), b)
                                     \/ is_orphan_block(WriterState(stored, canon,
                                                                    orphaned_blocks_pool, sink_err), b)
                                  THEN <<>>
                                  ELSE verification_queue_of(b, order),
                        repeated |-> (last.op = "append_block" /\ last.block = b)]
            /\ appended' = IF b \in Blocks THEN [appended EXCEPT ![b] = Bump(@)] ELSE appended
            /\ UNCHANGED <<server_vars, accepts>>

\* the verifiers of the model: each rejects at most MaxRejected blocks
AcceptSets == {Blocks \ R : R \in {X \in SUBSET Blocks : Cardinality(X) <= MaxRejected}}

InitBW ==
    /\ InitServer
    /\ InitStorage
    /\ InitWriter
    /\ accepts \in AcceptSets
    /\ last = NoOp

NextBW == \E b \in AllBlocks : AppendBlock(b)

SpecBW == InitBW /\ [][NextBW]_vars


(***************************************************************************)
(* The executor over a populated storage.  SpecEx starts from a storage    *)
(* that append_block built (blocks appended parent first, every block      *)
(* accepted) and serves one request, taken from a set that covers          *)
(* locators with canonical, side-branch and unknown hashes.                *)
(***************************************************************************)
\* longest block locator / longest getdata inventory of a request
MaxLocator == 2
MaxGetData == 3

\* the hashes of the requests: the unknown hash, the genesis block and two
\* blocks of either branch
Hashes == {ZeroHash, Genesis, 2, 3, 5, 6}
RequestPeers == {0, NumPeers - 1}

\* sequences of distinct blocks in which every block follows its parent
BuildOrders ==
    {order \in UNION {[1 .. n -> Blocks] : n \in 0 .. Cardinality(Blocks)} :
        /\ \A i, j \in 1 .. Len(order) : i # j => order[i] # order[j]
        /\ \A i \in 1 .. Len(order) :
              \/ previous_header_hash(order[i]) = Genesis
              \/ \E j \in 1 .. (i - 1) : order[j] = previous_header_hash(order[i])}

RECURSIVE Built(_)
\* the writer state after append_block of the blocks of order, in order
Built(order) ==
    IF order = <<>> THEN WriterState({Genesis}, <<Genesis>>, {}, NoneOpt)
    ELSE append_block(Built(Front(order)), order[Len(order)], <<>>).state

Locators == SeqsUpTo(Hashes, MaxLocator)
RequestIds == {0, 6}
GetDataItems == {InvBlock(h) : h \in {ZeroHash, Genesis, 2, 5}} \cup {InvError(ZeroHash)}

Requests(peer) ==
    {GetBlocks(peer, locator, stop, 1) : locator \in Locators, stop \in Hashes}
        \cup {GetHeaders(peer, locator, stop, id, 1) :
                  locator \in Locators, stop \in Hashes, id \in RequestIds}
        \cup {GetData(peer, inv, 1) : inv \in SeqsUpTo(GetDataItems, MaxGetData)}

InitEx ==
    /\ InitServer
    /\ InitWriter
    /\ accepts = Blocks
    /\ last = NoOp
    /\ \E order \in BuildOrders :
          /\ stored = Built(order).stored
          /\ canon = Built(order).canon

\* the one request of a behaviour
Request(peer) ==
    /\ submitted = 0
    /\ \E task \in Requests(peer) : ExecuteTask(task)

NextEx ==
    \/ \E peer \in RequestPeers : Request(peer)
    \/ WorkerLock
    \/ WorkerWake
    \/ WorkerExecute
    \/ WorkerReinject

SpecEx == InitEx /\ [][NextEx]_vars


(***************************************************************************)
(* Properties of the server queue (checked under Spec).                    *)
(***************************************************************************)
HasTasks(peer) == peer \in DOMAIN tasks_queue /\ tasks_queue[peer] # <<>>

\* C1: after every queue operation, in any interleaving of producers,
\* disconnects and the worker, a peer index is in peers_queue if and only if
\* tasks_queue holds a non-empty deque for it.
C1_QueuedIffHasTasks ==
    \A peer \in Peers : (peer \in Range(peers_queue)) <=> HasTasks(peer)

\* a continuation was put back after a disconnect and two dispatches, two
\* peers are queued
C1_Witness ==
    /\ last.op = "add_task_front"
    /\ disconnects > 0
    /\ Len(dispatched) >= 2
    /\ Len(peers_queue) >= 2

\* C2: peers_queue never holds the same peer index twice.
C2_NoDuplicatePeers ==
    \A i, j \in 1 .. Len(peers_queue) : i # j => peers_queue[i] # peers_queue[j]

\* a continuation was put back for a peer that was queued already (its deque
\* held a later request), next to another queued peer
C2_Witness ==
    /\ last.op = "add_task_front"
    /\ HasTasks(last.peer)
    /\ Len(tasks_queue[last.peer]) >= 2
    /\ Len(peers_queue) >= 2

\* C5: in the state on_disconnect(p) leaves, tasks_queue has no entry for p and
\* p does not occur in peers_queue (the removal is one step under the mutex).
C5_DisconnectRemovesPeer ==
    last.op = "on_disconnect" =>
        /\ last.peer \notin DOMAIN tasks_queue
        /\ last.peer \notin Range(peers_queue)

\* a peer with pending tasks was disconnected while another peer is queued
C5_Witness ==
    /\ last.op = "on_disconnect"
    /\ last.had_tasks
    /\ peers_queue # <<>>


(***************************************************************************)
(* Dispatch order (checked under Spec, over the log of dispatches).        *)
(***************************************************************************)
DispatchedPeer(i) == peer_index(dispatched[i].task)

\* i and j are two consecutive dispatches of one peer with no on_disconnect
\* call between them
ConsecutiveDispatches(i, j) ==
    /\ i < j
    /\ DispatchedPeer(i) = DispatchedPeer(j)
    /\ \A k \in (i + 1) .. (j - 1) : DispatchedPeer(k) # DispatchedPeer(i)
    /\ dispatched[i].disconnects = dispatched[j].disconnects

\* the number of dispatches of peer r strictly between i and j
DispatchesBetween(i, j, r) == Cardinality({k \in (i + 1) .. (j - 1) : DispatchedPeer(k) = r})

\* after dispatch i its peer still had work: a non-empty deque, or the
\* continuation the executor returns for the task
StillHasWork(i) == dispatched[i].requeued \/ IsSome(execute(dispatched[i].task).cont)

\* the step in which the worker takes a task from the queue
NextTaskStep ==
    Len(dispatched') = Len(dispatched) + 1 =>
        LET peer == Head(peers_queue)
        IN  /\ dispatched'[Len(dispatched')].task = Head(tasks_queue[peer])
            /\ peers_queue' = IF Len(tasks_queue[peer]) > 1
                              THEN Append(Tail(peers_queue), peer)
                              ELSE Tail(peers_queue)

\* between two consecutive dispatches of a peer, every other peer that had
\* pending work at the first of them is dispatched exactly once
ExactlyOnceBetween ==
    \A i, j \in 1 .. Len(dispatched) :
        ConsecutiveDispatches(i, j) =>
            \A r \in dispatched[i].pending : DispatchesBetween(i, j, r) = 1

\* C9 as stated: next_task pops the front peer, returns the front task and
\* re-appends the peer iff its deque is non-empty; hence between two
\* consecutive dispatches of a peer every other peer that had pending work at
\* the first of them is dispatched exactly once.
C9_Original == [][NextTaskStep]_vars /\ []ExactlyOnceBetween

\* between two consecutive dispatches of a peer p, every other peer with
\* pending work at the first of them is dispatched at least once, and exactly
\* once when p still had work after the first of them
RoundRobinOrder ==
    \A i, j \in 1 .. Len(dispatched) :
        ConsecutiveDispatches(i, j) =>
            \A r \in dispatched[i].pending :
                /\ DispatchesBetween(i, j, r) >= 1
                /\ StillHasWork(i) => DispatchesBetween(i, j, r) = 1

\* C9 (amended): next_task pops the front peer, returns the front task of its
\* deque and re-appends the peer at the tail iff the deque is still non-empty;
\* between two consecutive dispatches of a peer p (no disconnect between),
\* every other peer with pending work at the first of them is dispatched at
\* least once, and exactly once when p still had work after the first of them
\* (a non-empty deque or a reinjected continuation).
C9_RoundRobin == [][NextTaskStep]_vars /\ []RoundRobinOrder

\* a peer whose deque was emptied by the pop was dispatched again for its
\* reinjected continuation, after the other pending peer had its turn
C9_Witness ==
    \E i, j \in 1 .. Len(dispatched) :
        /\ ConsecutiveDispatches(i, j)
        /\ dispatched[i].pending # {}
        /\ ~dispatched[i].requeued
        /\ dispatched[j].task.kind = "ReversedGetData"
        /\ \A r \in dispatched[i].pending : DispatchesBetween(i, j, r) = 1

IsContinuation(i) == dispatched[i].task.kind = "ReversedGetData"

\* the dispatch of the task that returned the continuation dispatched at j
OriginOf(j) ==
    CHOOSE i \in 1 .. (j - 1) :
        /\ dispatched[i].task.id = dispatched[j].task.id
        /\ \A k \in (i + 1) .. (j - 1) : dispatched[k].task.id # dispatched[j].task.id

\* C10: the requests submitted for one peer are dispatched in submission
\* order, and a continuation is dispatched before every task of its peer that
\* was submitted after the continuation's originating task was popped.
C10_PeerOrder ==
    /\ \A i, j \in 1 .. Len(dispatched) :
          (/\ i < j
           /\ DispatchedPeer(i) = DispatchedPeer(j)
           /\ ~IsContinuation(i)
           /\ ~IsContinuation(j)) => dispatched[i].task.id < dispatched[j].task.id
    /\ \A j, k \in 1 .. Len(dispatched) :
          (/\ IsContinuation(j)
           /\ DispatchedPeer(k) = DispatchedPeer(j)
           /\ dispatched[k].task.id > dispatched[OriginOf(j)].submitted) => j < k

\* a request submitted while its peer's earlier request was being executed
\* was dispatched after that request's continuation
C10_Witness ==
    \E j, k \in 1 .. Len(dispatched) :
        /\ IsContinuation(j)
        /\ j < k
        /\ DispatchedPeer(k) = DispatchedPeer(j)
        /\ dispatched[k].task.id > dispatched[OriginOf(j)].submitted
        /\ dispatched[k].task.id <= dispatched[j].submitted


(***************************************************************************)
(* Shutdown (checked under SpecDrop).                                      *)
(***************************************************************************)
\* C11: once drop has stored is_stopping under the mutex and notified the
\* condvar, the worker leaves its loop and join returns, whatever the worker
\* was doing (waiting, about to wait, executing a task).
C11_DropTerminates ==
    (drop_pc = "join") ~> (worker.pc = "stopped" /\ drop_pc = "done")

\* join returned, and the worker's last queue operation was a next_task that
\* found nothing after is_stopping was stored: the worker was in the wait,
\* was woken and left the loop at its next iteration
C11_Witness ==
    /\ drop_pc = "done"
    /\ worker.pc = "stopped"
    /\ last.op = "next_task_none"
    /\ dispatched # <<>>


(***************************************************************************)
(* Properties of the blocks writer (checked under SpecBW).                 *)
(***************************************************************************)
\* C3 as stated: the orphan pool never holds more than MAX_ORPHANED_BLOCKS
\* blocks, also after calls that return Err(TooManyOrphanBlocks).
C3_OrphanPoolBounded == Cardinality(orphaned_blocks_pool) <= MAX_ORPHANED_BLOCKS

\* C4 as stated: a call that returns Err(TooManyOrphanBlocks) does not retain
\* its block and leaves the orphan pool as it was before the call.
C4_RejectedOrphanNotRetained ==
    [][\A b \in AllBlocks :
          (AppendBlock(b) /\ last'.result = "TooManyOrphanBlocks") =>
              /\ b \notin orphaned_blocks_pool'
              /\ orphaned_blocks_pool' = orphaned_blocks_pool]_vars

\* C6: when append_block(b) returns Ok, b is in storage or in the orphan pool,
\* and not in both.
C6_StoredXorOrphaned ==
    (last.op = "append_block" /\ last.result = "Ok") =>
        (last.block \in stored) # (last.block \in orphaned_blocks_pool)

\* a call that verified its block and a drained orphan returned Ok while
\* another orphan stays in the pool
C6_Witness ==
    /\ last.op = "append_block"
    /\ last.result = "Ok"
    /\ Len(last.verified) >= 2
    /\ last.block \in stored
    /\ orphaned_blocks_pool # {}

\* the linear chain b1..b3 on top of the genesis block
LinearChain == <<2, 3, 4>>

RECURSIVE InOrder(_)
\* the writer state after appending LinearChain[1..n] in order
InOrder(n) ==
    IF n = 0 THEN WriterState({Genesis}, <<Genesis>>, {}, NoneOpt)
    ELSE append_block(InOrder(n - 1), LinearChain[n], <<>>).state

\* every block of LinearChain[1..n] had exactly one append_block call, no other
\* block had any, and the verifier accepts the chain
AppendedPermutation(n) ==
    /\ \A b \in Blocks :
          appended[b] = IF b \in Range(SubSeq(LinearChain, 1, n)) THEN 1 ELSE 0
    /\ Range(SubSeq(LinearChain, 1, n)) \subseteq accepts

\* C7: appending the blocks of a linear chain b1..bn (all accepted, n within
\* the orphan capacity) in any permutation ends in the storage state of the
\* in-order append, with best block bn and an empty orphan pool.
C7_PermutationSameState ==
    \A n \in 1 .. Len(LinearChain) :
        (n <= MAX_ORPHANED_BLOCKS /\ AppendedPermutation(n)) =>
            /\ stored = InOrder(n).stored
            /\ canon = InOrder(n).canon
            /\ best_block.hash = LinearChain[n]
            /\ orphaned_blocks_pool = {}

\* the chain was appended with b1 last: the call for b1 drained b2 and b3
C7_Witness ==
    /\ AppendedPermutation(3)
    /\ last.op = "append_block"
    /\ last.block = LinearChain[1]
    /\ Len(last.verified) = 3

\* C8: an append_block call that repeats the block of the call before it
\* leaves the storage and the orphan pool as they are, and a call for a block
\* already in storage returns Ok and submits nothing to the verifier.
C8_SecondAppendNoOp ==
    [][\A b \in AllBlocks :
          AppendBlock(b) =>
              /\ (last.op = "append_block" /\ last.block = b) =>
                     /\ stored' = stored
                     /\ canon' = canon
                     /\ orphaned_blocks_pool' = orphaned_blocks_pool
              /\ b \in stored =>
                     /\ last'.result = "Ok"
                     /\ last'.verified = <<>>
                     /\ stored' = stored
                     /\ canon' = canon
                     /\ orphaned_blocks_pool' = orphaned_blocks_pool]_vars

\* a block of a main chain of three blocks was appended twice in a row
C8_Witness ==
    /\ last.op = "append_block"
    /\ last.repeated
    /\ last.block \in stored
    /\ last.block # Genesis
    /\ Len(canon) >= 3

(***************************************************************************)
(* Properties of the executor (checked under SpecEx).                      *)
(***************************************************************************)
\* the longest walk back along previous_header_hash in the block universe
MaxDepth == Cardinality(AllBlocks)

RECURSIVE Ancestor(_, _)
\* the k-th ancestor of a hash (the hash itself for k = 0)
Ancestor(h, k) == IF k = 0 THEN h ELSE previous_header_hash(Ancestor(h, k - 1))

OnMainChain(h) == h \in Range(canon)
HeightOf(h) == Position(canon, h) - 1

\* the k-th ancestor of h is on the main chain and is reached from h through
\* known headers only
ReachesMainChainAt(h, k) ==
    /\ OnMainChain(Ancestor(h, k))
    /\ \A j \in 0 .. (k - 1) : Ancestor(h, j) \in stored

Resolves(h) == \E k \in 0 .. MaxDepth : ReachesMainChainAt(h, k)

\* the height of h if it is canonical, of its nearest canonical ancestor
\* otherwise
ResolvedHeight(h) ==
    LET k == CHOOSE d \in 0 .. MaxDepth :
                 /\ ReachesMainChainAt(h, d)
                 /\ \A e \in 0 .. (d - 1) : ~ReachesMainChainAt(h, e)
    IN  HeightOf(Ancestor(h, k))

\* what C12 says locate_best_common_block returns
CommonBlock(hash_stop, locator) ==
    LET entries == Append(locator, hash_stop)
    IN  IF \E i \in 1 .. Len(entries) : Resolves(entries[i])
        THEN LET first == CHOOSE i \in 1 .. Len(entries) :
                              /\ Resolves(entries[i])
                              /\ \A j \in 1 .. (i - 1) : ~Resolves(entries[j])
             IN  Some(ResolvedHeight(entries[first]))
        ELSE NoneOpt

\* the worker holds a getblocks / getheaders request it is about to execute
HoldsLocatorRequest ==
    /\ worker.pc = "execute"
    /\ Unwrap(worker.task).kind \in {"GetBlocks", "GetHeaders"}

\* C12: locate_best_common_block(hash_stop, locator) is Some exactly when an
\* entry of locator ++ [hash_stop] is on the main chain or leads to it through
\* known headers; the first such entry decides, with its own height when it is
\* canonical and the height of its nearest canonical ancestor otherwise.
C12_LocateBestCommonBlock ==
    HoldsLocatorRequest =>
        LET task == Unwrap(worker.task)
        IN  locate_best_common_block(task.hash_stop, task.block_locator_hashes)
                = CommonBlock(task.hash_stop, task.block_locator_hashes)

\* a request whose first entry is unknown and whose second entry is two
\* blocks up a side branch: the walk decides, not the canonical stop hash
C12_Witness ==
    /\ HoldsLocatorRequest
    /\ LET task == Unwrap(worker.task)
           locator == task.block_locator_hashes
       IN  /\ Len(locator) = 2
           /\ ~Resolves(locator[1])
           /\ ~OnMainChain(locator[2])
           /\ ~OnMainChain(previous_header_hash(locator[2]))
           /\ Resolves(locator[2])
           /\ OnMainChain(task.hash_stop)
           /\ HeightOf(task.hash_stop) # ResolvedHeight(locator[2])
           /\ locate_best_common_block(task.hash_stop, locator)
                  = Some(ResolvedHeight(locator[2]))

\* the request of the behaviour, as the worker took it from the queue
TheRequest == dispatched[1].task

\* the request has been dispatched and nothing of it is left to do
Completed ==
    /\ dispatched # <<>>
    /\ worker.task = NoneOpt
    /\ DOMAIN tasks_queue = {}

\* the MessageBlock items of an inventory that are / are not in the storage
FoundItems(inventory) ==
    LET found(item) == item.inv_type = "MessageBlock" /\ item.hash \in stored
    IN  SelectSeq(inventory, found)

MissingItems(inventory) ==
    LET missing(item) == item.inv_type = "MessageBlock" /\ item.hash \notin stored
    IN  SelectSeq(inventory, missing)

\* what C13 says a getdata request emits
GetDataResponse(peer, inventory) ==
    [i \in 1 .. Len(FoundItems(inventory)) |->
        [kind |-> "Block", peer_index |-> peer, block |-> FoundItems(inventory)[i].hash]]
    \o (IF MissingItems(inventory) # <<>>
        THEN <<[kind |-> "NotFound", peer_index |-> peer,
                inventory |-> MissingItems(inventory)]>>
        ELSE <<>>)

\* C13: a GetData(peer, inv) request served to completion has emitted one
\* Block for every MessageBlock item found in storage, in request order, then
\* one NotFound listing the unfound items in request order iff there is one,
\* and nothing else.
C13_GetDataResponse ==
    (Completed /\ TheRequest.kind = "GetData") =>
        /\ executor_tasks = GetDataResponse(TheRequest.peer_index, TheRequest.inventory)
        /\ misbehaving = <<>>

\* a completed request of three items: two different stored blocks around an
\* unknown one
C13_Witness ==
    /\ Completed
    /\ TheRequest.kind = "GetData"
    /\ Len(TheRequest.inventory) = 3
    /\ Len(executor_tasks) = 3
    /\ executor_tasks[1].kind = "Block"
    /\ executor_tasks[2].kind = "Block"
    /\ executor_tasks[1].block # executor_tasks[2].block
    /\ executor_tasks[3].kind = "NotFound"
    /\ TheRequest.inventory[2].hash \notin stored

Min(a, b) == IF a < b THEN a ELSE b

\* the canonical hashes at heights k + 1, k + 2, ..., cut at the first missing
\* height, before the first hash equal to hash_stop, and at max entries
CanonicalSuccessors(k, max, hash_stop) ==
    LET top == Min(Len(canon) - 1, k + max)
        stops == {h \in (k + 1) .. top : canon[h + 1] = hash_stop}
        end == IF stops = {} THEN top
               ELSE (CHOOSE h \in stops : \A g \in stops : h <= g) - 1
    IN  [i \in 1 .. (end - k) |-> canon[k + i + 1]]

RequestLocates == IsSome(CommonBlock(TheRequest.hash_stop, TheRequest.block_locator_hashes))
RequestCommon == Unwrap(CommonBlock(TheRequest.hash_stop, TheRequest.block_locator_hashes))

\* C14: a GetBlocks request that locates a common block at height k answers
\* with the canonical hashes at heights k+1, k+2, ... cut at the first missing
\* height, at hash_stop (excluded) and at GETBLOCKS_MAX_RESPONSE_HASHES; it
\* emits exactly one Inventory when that list is non-empty and no outbound
\* task at all when it is empty.
C14_GetBlocksResponse ==
    (Completed /\ TheRequest.kind = "GetBlocks" /\ RequestLocates) =>
        LET hashes == CanonicalSuccessors(RequestCommon, GETBLOCKS_MAX_RESPONSE_HASHES,
                                          TheRequest.hash_stop)
        IN  /\ executor_tasks =
                  IF hashes # <<>>
                  THEN <<[kind |-> "Inventory", peer_index |-> TheRequest.peer_index,
                          inventory |-> [i \in 1 .. Len(hashes) |-> InvBlock(hashes[i])]]>>
                  ELSE <<>>
            /\ misbehaving = <<>>

\* a completed request whose common block is the genesis block, on a main
\* chain of four blocks, with the stop hash at height 2: the answer is the
\* hash at height 1 alone
C14_Witness ==
    /\ Completed
    /\ TheRequest.kind = "GetBlocks"
    /\ RequestLocates
    /\ RequestCommon = 0
    /\ Len(canon) = 4
    /\ TheRequest.hash_stop = canon[3]
    /\ Len(executor_tasks) = 1
    /\ Len(executor_tasks[1].inventory) = 1

C16_VerificationErrorStops ==
    [][\A b \in AllBlocks :
          AppendBlock(b) =>
              LET v == last'.verified
                  n == Len(v)
              IN  /\ (\E i \in 1 .. n : v[i] \notin accepts) => last'.result = "Verification"
                  /\ last'.result = "Verification" =>
                         /\ n >= 1
                         /\ v = SubSeq(last'.queue, 1, n)
                         /\ v[n] \notin accepts
                         /\ \A i \in 1 .. (n - 1) : v[i] \in accepts
                         /\ stored' = stored \cup {v[i] : i \in 1 .. (n - 1)}
                         /\ v[n] \notin Range(canon')
                         /\ n = 1 => canon' = canon]_vars

\* a call committed its block, had the first drained orphan rejected and left
\* the second drained orphan unsubmitted
C16_Witness ==
    /\ last.op = "append_block"
    /\ last.result = "Verification"
    /\ Len(last.verified) = 2
    /\ Len(last.queue) = 3
    /\ last.block \in stored
    /\ best_block.hash = last.block

\* C17 as stated: every block that was in the orphan pool before a call that
\* returns Err(Verification) or Err(Database), and that the call did not
\* commit to storage, is in the orphan pool after the call.
C17_OrphansKeptOnError ==
    [][\A b \in AllBlocks :
          (AppendBlock(b) /\ last'.result \in {"Verification", "Database"}) =>
              \A o \in orphaned_blocks_pool :
                  o \notin stored' => o \in orphaned_blocks_pool']_vars

(***************************************************************************)
(* The drained subtree (checked under SpecBW).                             *)
(***************************************************************************)
\* o descends from b
IsDescendant(o, b) == \E k \in 1 .. MaxDepth : Ancestor(o, k) = b

\* o descends from b and every block between them is in the orphan pool
LinkedThroughPool(o, b) ==
    \E k \in 1 .. MaxDepth :
        /\ Ancestor(o, k) = b
        /\ \A j \in 1 .. (k - 1) : Ancestor(o, j) \in orphaned_blocks_pool

\* the call for b takes the verification path
VerificationPath(b) == b \notin stored /\ previous_header_hash(b) \in stored

\* the call for b returned Ok on the verification path, and b and the orphans
\* of D were submitted, are stored and are out of the pool
SubmittedAndStored(b, D) ==
    \A x \in {b} \cup D :
        /\ x \in Range(last'.verified)
        /\ x \in stored'
        /\ x \notin orphaned_blocks_pool'

\* C18 as stated: when append_block(b) takes the verification path and
\* returns Ok, b and every block that was in the orphan pool as a direct or
\* transitive descendant of b have been submitted to the verifier, are in
\* storage and are no longer in the pool.
C18_Original ==
    [][\A b \in AllBlocks :
          (AppendBlock(b) /\ VerificationPath(b) /\ last'.result = "Ok") =>
              SubmittedAndStored(b, {o \in orphaned_blocks_pool : IsDescendant(o, b)})]_vars

\* C18 (amended): when append_block(b) takes the verification path and
\* returns Ok, b and every block of the orphan pool that is linked to b
\* through blocks of the pool (its parent is b or another such block) have
\* been submitted to the verifier, are in storage and are no longer in the
\* pool; a pooled descendant whose own parent is neither b nor pooled stays
\* in the pool.
C18_DrainedSubtreeSubmitted ==
    [][\A b \in AllBlocks :
          (AppendBlock(b) /\ VerificationPath(b) /\ last'.result = "Ok") =>
              /\ SubmittedAndStored(b, {o \in orphaned_blocks_pool : LinkedThroughPool(o, b)})
              /\ \A o \in orphaned_blocks_pool :
                     ~LinkedThroughPool(o, b) => o \in orphaned_blocks_pool']_vars

\* a call returned Ok after its block and two drained orphans were verified
\* and stored, while an orphan of another subtree stays in the pool
C18_Witness ==
    /\ last.op = "append_block"
    /\ last.result = "Ok"
    /\ Len(last.verified) = 3
    /\ Range(last.verified) \subseteq stored
    /\ orphaned_blocks_pool # {}

(***************************************************************************)
(* The orphan path (checked under SpecBW).                                 *)
(***************************************************************************)
\* the call for b takes the orphan path
OrphanPath(b) == b \notin stored /\ previous_header_hash(b) \notin stored

\* C19: append_block of a block that is not stored and whose parent is not
\* stored submits nothing to the verifier and leaves the storage and the best
\* block as they are; it inserts the block into the orphan pool and returns
\* Ok exactly when the pool size after the insertion is at most
\* MAX_ORPHANED_BLOCKS, and Err(TooManyOrphanBlocks) otherwise; so a new
\* orphan returns Ok exactly when fewer than MAX_ORPHANED_BLOCKS are pooled.
C19_OrphanPath ==
    [][\A b \in AllBlocks :
          (AppendBlock(b) /\ OrphanPath(b)) =>
              /\ last'.verified = <<>>
              /\ stored' = stored
              /\ canon' = canon
              /\ orphaned_blocks_pool' = orphaned_blocks_pool \cup {b}
              /\ last'.result \in {"Ok", "TooManyOrphanBlocks"}
              /\ last'.result = "Ok" <=>
                     Cardinality(orphaned_blocks_pool') <= MAX_ORPHANED_BLOCKS
              /\ b \notin orphaned_blocks_pool =>
                     (last'.result = "Ok" <=>
                         Cardinality(orphaned_blocks_pool) < MAX_ORPHANED_BLOCKS)]_vars

\* on the seeded storage, after MAX_ORPHANED_BLOCKS distinct orphans were
\* buffered, the next distinct orphan was refused; no block had two calls
C19_Witness ==
    /\ last.op = "append_block"
    /\ last.result = "TooManyOrphanBlocks"
    /\ stored = {Genesis}
    /\ best_block.number = 0
    /\ \A b \in Blocks : appended[b] <= 1
    /\ Cardinality({b \in Blocks : appended[b] = 1}) = MAX_ORPHANED_BLOCKS + 1

(***************************************************************************)
(* Reorganization (checked under SpecBW).                                  *)
(***************************************************************************)
\* b1 (parent b0), b2 (parent b0, more work than b1), b3 (parent b2)
ReorgBlocks == <<2, 5, 6>>

\* the first n blocks of the scenario, and only they, had one call each, with
\* a verifier that accepts every block
ScenarioAt(n) ==
    /\ accepts = Blocks
    /\ \A b \in Blocks :
          appended[b] = IF b \in Range(SubSeq(ReorgBlocks, 1, n)) THEN 1 ELSE 0

\* the main chain is a contiguous sequence from height 0 to the best block:
\* it starts at the genesis block, every block follows its parent, and the
\* number of every hash is its distance from the genesis block
MainChainWellFormed ==
    /\ canon[1] = Genesis
    /\ \A i \in 2 .. Len(canon) : previous_header_hash(canon[i]) = canon[i - 1]
    /\ \A n \in 0 .. best_block.number :
          /\ IsSome(block_hash(n))
          /\ block_number(Unwrap(block_hash(n))) = Some(n)
          /\ Ancestor(Unwrap(block_hash(n)), n) = Genesis

\* C20: with a verifier that accepts every block and storage seeded with b0,
\* appending b1, then b2 (a sibling of b1 with more work), then b3 (child of
\* b2) returns Ok each time; afterwards the canonical tip is b3, b1 is stored
\* but no longer on the main chain, and the main chain is contiguous from
\* height 0 to the best block with every number the distance from genesis.
C20_Reorganize ==
    [][/\ (ScenarioAt(0) /\ AppendBlock(ReorgBlocks[1])) =>
              /\ last'.result = "Ok"
              /\ best_block'.hash = ReorgBlocks[1]
       /\ (ScenarioAt(1) /\ AppendBlock(ReorgBlocks[2])) =>
              /\ last'.result = "Ok"
              /\ best_block'.hash = ReorgBlocks[2]
       /\ (ScenarioAt(2) /\ AppendBlock(ReorgBlocks[3])) =>
              /\ last'.result = "Ok"
              /\ best_block'.hash = ReorgBlocks[3]
              /\ best_block'.number = 2
              /\ block_number(ReorgBlocks[1])' = NoneOpt
              /\ stored' = {Genesis} \cup Range(ReorgBlocks)
              /\ orphaned_blocks_pool' = {}
              /\ canon' = <<Genesis, ReorgBlocks[2], ReorgBlocks[3]>>
              /\ MainChainWellFormed']_vars

\* the state the scenario ends in, b3 appended last: b3 is the tip and b1 is
\* stored off the main chain
C20_Witness ==
    /\ ScenarioAt(3)
    /\ last.op = "append_block"
    /\ last.block = ReorgBlocks[3]
    /\ last.result = "Ok"
    /\ best_block.hash = ReorgBlocks[3]
    /\ ReorgBlocks[1] \in stored \ Range(canon)

(***************************************************************************)
(* Cancellation and wake-ups (checked under Spec and SpecDrop).            *)
(***************************************************************************)
\* on_disconnect(p) was the last queue operation and the worker holds a task
\* of p that it popped before: no execute call followed the disconnect
InFlightDisconnected ==
    /\ last.op = "on_disconnect"
    /\ worker.pc \in {"execute", "reinject"}
    /\ peer_index(Unwrap(worker.task)) = last.peer

\* C21 as stated: when on_disconnect(p) ran while the worker held a popped
\* task of p, and execute was not called since, the completion of that task
\* leaves no task for p in the queue: its continuation is not put back.
C21_InFlightCancelled ==
    [][(InFlightDisconnected /\ WorkerReinject) =>
          /\ last.peer \notin DOMAIN tasks_queue'
          /\ last.peer \notin Range(peers_queue')]_vars

\* the request of the execute call number id waits in the queue
Pending(id) ==
    \E peer \in DOMAIN tasks_queue :
        \E i \in 1 .. Len(tasks_queue[peer]) :
            /\ tasks_queue[peer][i].id = id
            /\ tasks_queue[peer][i].kind # "ReversedGetData"

\* the worker took the request of the execute call number id
Dispatched(id) ==
    \E i \in 1 .. Len(dispatched) :
        dispatched[i].task.id = id /\ dispatched[i].task.kind # "ReversedGetData"

\* C22: every task enqueued by execute is eventually dispatched by the
\* worker, unless its peer is disconnected (the task leaves the queue
\* undispatched) or the server is shut down first; the worker is scheduled
\* fairly and every dispatch terminates.
C22_NoLostWakeup ==
    \A id \in 1 .. MaxDropTasks :
        Pending(id) ~> (Dispatched(id) \/ ~Pending(id) \/ is_stopping)

\* the worker was in the wait when a request came in, was woken and took it,
\* after an earlier request had been dispatched; the server is alive
C22_Witness ==
    /\ last.op = "next_task"
    /\ last.woken
    /\ Len(dispatched) >= 2
    /\ Dispatched(submitted)
    /\ ~is_stopping

\* the dispatches that started when is_stopping was set
DispatchesWhileStopping == {i \in 1 .. Len(dispatched) : dispatched[i].stopping}

\* C23: once is_stopping is set the worker starts at most one more dispatch
\* before it exits: it sees the flag at the top of its loop, or it wakes from
\* the wait, handles the one task next_task returns and then sees the flag;
\* a dispatch that starts after the flag was set starts from the wait.
C23_OneDispatchAfterStop ==
    /\ Cardinality(DispatchesWhileStopping) <= 1
    /\ (last.op = "next_task" /\ is_stopping /\ worker.pc = "execute") => last.woken
    /\ worker.pc = "stopped" => is_stopping

\* the worker left its loop after one dispatch that it started from the wait
\* with is_stopping set, and that task's continuation is back in the queue
C23_Witness ==
    /\ worker.pc = "stopped"
    /\ Cardinality(DispatchesWhileStopping) = 1
    /\ last.op = "add_task_front"
    /\ peers_queue # <<>>

(***************************************************************************)
(* The getdata loop and unknown locators (checked under SpecEx).           *)
(***************************************************************************)
\* what the executor does with the task of dispatch i (the storage does not
\* change while the request is served)
Outcome(i) == execute(dispatched[i].task)

\* dispatch i is a ReversedGetData dispatch that takes one item, emits at most
\* one outbound task and returns the continuation with the remaining items,
\* or finds the inventory empty and returns no continuation
OneItemStep(i) ==
    LET task == dispatched[i].task
    IN  /\ task.kind = "ReversedGetData"
        /\ IF task.inventory = <<>>
           THEN Outcome(i).cont = NoneOpt
           ELSE /\ Len(Outcome(i).out) <= 1
                /\ IsSome(Outcome(i).cont)
                /\ Unwrap(Outcome(i).cont).kind = "ReversedGetData"
                /\ Unwrap(Outcome(i).cont).inventory = Front(task.inventory)

\* C24: the GetData dispatch emits nothing and returns a ReversedGetData
\* continuation; each ReversedGetData dispatch removes exactly one item,
\* emits at most one outbound task and returns a continuation, until the one
\* that finds the inventory empty and returns none; every dispatch after the
\* first is of the continuation the one before returned, and a request of n
\* items finishes after exactly n + 2 dispatches.
C24_GetDataOneItemPerDispatch ==
    (dispatched # <<>> /\ TheRequest.kind = "GetData") =>
        LET n == Len(TheRequest.inventory)
        IN  /\ Outcome(1).out = <<>>
            /\ IsSome(Outcome(1).cont)
            /\ Unwrap(Outcome(1).cont).kind = "ReversedGetData"
            /\ Len(Unwrap(Outcome(1).cont).inventory) = n
            /\ \A i \in 2 .. Len(dispatched) :
                  /\ OneItemStep(i)
                  /\ dispatched[i].task = Unwrap(Outcome(i - 1).cont)
                  /\ Len(dispatched[i].task.inventory) = n - (i - 2)
            /\ Len(dispatched) <= n + 2
            /\ Completed <=> (Len(dispatched) = n + 2 /\ worker.pc \in {"lock", "waiting"})

\* a request of three items is finished after five dispatches
C24_Witness ==
    /\ Completed
    /\ TheRequest.kind = "GetData"
    /\ Len(TheRequest.inventory) = 3
    /\ Len(dispatched) = 5
    /\ dispatched[5].task.inventory = <<>>

\* C25: when no entry of locator ++ [hash_stop] resolves to a common block,
\* GetBlocks and GetHeaders each report the peer through Peers::misbehaving
\* exactly once, emit no outbound task and return no continuation (the
\* request is finished after its one dispatch).
C25_UnknownLocatorMisbehaving ==
    /\ (Completed /\ TheRequest.kind \in {"GetBlocks", "GetHeaders"} /\ ~RequestLocates) =>
            /\ misbehaving = <<TheRequest.peer_index>>
            /\ executor_tasks = <<>>
            /\ Len(dispatched) = 1
    /\ (dispatched # <<>> /\ TheRequest.kind \in {"GetBlocks", "GetHeaders"}) =>
            /\ Outcome(1).cont = NoneOpt
            /\ ~RequestLocates =>
                   (worker.pc = "execute" \/ misbehaving = <<TheRequest.peer_index>>)

\* a finished getblocks request of the last peer whose two locator entries and
\* stop hash are all unknown to a storage that holds blocks besides genesis
C25_Witness ==
    /\ Completed
    /\ TheRequest.kind = "GetBlocks"
    /\ Len(TheRequest.block_locator_hashes) = 2
    /\ TheRequest.hash_stop # ZeroHash
    /\ ~RequestLocates
    /\ Cardinality(stored) >= 3
    /\ misbehaving = <<NumPeers - 1>>

(***************************************************************************)
(* The queue's assertions (checked under Spec).                            *)
(***************************************************************************)
\* C26: in every reachable state next_task finds a non-empty deque for the
\* peer it pops from peers_queue, and remove_peer_tasks finds in peers_queue
\* every peer that has an entry in tasks_queue; no expect() has failed, and
\* on_disconnect of a peer without tasks leaves the queue alone.
C26_NoQueuePanic ==
    /\ ~next_task(peers_queue, tasks_queue).panicked
    /\ \A peer \in Peers : ~remove_peer_tasks(peers_queue, tasks_queue, peer).panicked
    /\ \A peer \in Peers \ DOMAIN tasks_queue :
          remove_peer_tasks(peers_queue, tasks_queue, peer).queue
              = Queue(peers_queue, tasks_queue)
    /\ worker.pc # "panicked"
    /\ last.op # "panic"

\* on_disconnect ran for a peer without tasks, after a dispatch, while the
\* other peer is queued with two tasks
C26_Witness ==
    /\ last.op = "on_disconnect"
    /\ ~last.had_tasks
    /\ dispatched # <<>>
    /\ \E peer \in DOMAIN tasks_queue : Len(tasks_queue[peer]) = 2

(***************************************************************************)
(* Submissions and the sink's error slot (checked under SpecBW).           *)
(***************************************************************************)
\* C27: every block append_block submits to the verifier has its parent in
\* storage at the moment of submission: the appended block goes first, the
\* drained orphans follow with every block after its parent, and a block is
\* submitted only after all earlier submissions of the call were accepted and
\* committed.
C27_ParentStoredAtSubmission ==
    [][\A b \in AllBlocks :
          AppendBlock(b) =>
              LET v == last'.verified
              IN  /\ v # <<>> => v[1] = b
                  /\ \A i \in 1 .. Len(v) :
                        /\ previous_header_hash(v[i])
                               \in stored \cup {v[j] : j \in 1 .. (i - 1)}
                        /\ \A j \in 1 .. (i - 1) :
                              /\ v[j] \in accepts
                              /\ v[j] \in stored'
                              /\ v[j] \notin stored]_vars

\* a call submitted its block and two drained siblings, both children of it
C27_Witness ==
    /\ last.op = "append_block"
    /\ Len(last.verified) = 3
    /\ previous_header_hash(last.verified[2]) = last.block
    /\ previous_header_hash(last.verified[3]) = last.block
    /\ last.result = "Ok"

\* C28: the sink's error slot is empty whenever append_block is entered and
\* whenever it returns, so the error a call reports is the verdict on the
\* last block that call submitted: a call that returns a verification error
\* submitted a block its verifier rejects, and a call that returns otherwise
\* submitted only blocks the verifier accepts.
C28_ErrorSlotEmptyBetweenCalls ==
    /\ sink_err = NoneOpt
    /\ last.op = "append_block" =>
          /\ last.result = "Verification" =>
                /\ last.verified # <<>>
                /\ last.verified[Len(last.verified)] \notin accepts
          /\ last.result # "Verification" =>
                \A i \in 1 .. Len(last.verified) : last.verified[i] \in accepts
          /\ \A i \in 1 .. (Len(last.verified) - 1) : last.verified[i] \in accepts

\* a call submitted blocks and returned Ok after an earlier call had a block
\* rejected
C28_Witness ==
    /\ last.op = "append_block"
    /\ last.result = "Ok"
    /\ last.verified # <<>>
    /\ sink_err = NoneOpt
    /\ \E r \in Blocks \ accepts :
          /\ appended[r] >= 1
          /\ r \notin orphaned_blocks_pool
          /\ r \notin stored
          /\ previous_header_hash(r) \in stored
          /\ previous_header_hash(r) \notin Range(last.verified)

(***************************************************************************)
(* The frame of on_disconnect (checked under SpecQueue).                   *)
(***************************************************************************)
PeersQueueWithout(peer) ==
    LET Other(queued) == queued # peer
    IN  SelectSeq(peers_queue, Other)

\* C29: on_disconnect(p) changes nothing but p's own entries: every other
\* peer keeps its deque, the other peers keep their relative order in
\* peers_queue, and when p has no pending tasks the queue is unchanged.
C29_DisconnectFrame ==
    [][\A peer \in QueuePeers :
          OnDisconnect(peer) =>
              /\ DOMAIN tasks_queue' = (DOMAIN tasks_queue) \ {peer}
              /\ \A other \in DOMAIN tasks_queue' :
                    tasks_queue'[other] = tasks_queue[other]
              /\ peers_queue' = PeersQueueWithout(peer)
              /\ peer \notin DOMAIN tasks_queue =>
                    /\ peers_queue' = peers_queue
                    /\ tasks_queue' = tasks_queue]_vars

\* a peer with pending tasks was disconnected while two other peers are
\* queued, the first of them with two tasks
C29_Witness ==
    /\ last.op = "on_disconnect"
    /\ last.had_tasks
    /\ Len(peers_queue) = 2
    /\ Len(tasks_queue[peers_queue[1]]) = 2
    /\ peers_queue[1] > peers_queue[2]


====
